---- MODULE Spec2Model ----
(***************************************************************************)
(* Model of scripts/build_gallery.py: the gallery builder scans src/apps   *)
(* for index.html marker files, derives one (category, name, path) entry   *)
(* per marker, groups the entries by category, renders one section per     *)
(* category and writes the document to ./index.html.                       *)
(*                                                                         *)
(* A string is a sequence of code points; a path (pathlib.Path, relative   *)
(* to the working directory) is the sequence of its segments.              *)
(***************************************************************************)
EXTENDS Integers, Sequences, FiniteSets, TLC

\* ---------------------------------------------------------------- bounds
\* Largest number of marker files under the scan root in an initial tree.
MaxFiles == 3
\* Number of consecutive runs of the builder on the same tree.
MaxRuns == 2

\* ------------------------------------------------------ string constants
Slash == 47
Backslash == 92

src == <<115, 114, 99>>
apps == <<97, 112, 112, 115>>
indexhtml == <<105, 110, 100, 101, 120, 46, 104, 116, 109, 108>>
draw == <<100, 114, 97, 119>>
logo == <<108, 111, 103, 111>>
Sketchpad == <<83, 107, 101, 116, 99, 104, 112, 97, 100>>
Paintbrush == <<80, 97, 105, 110, 116, 98, 114, 117, 115, 104>>
MakeabilityLabLogo == <<77, 97, 107, 101, 97, 98, 105, 108, 105, 116, 121, 76, 97, 98, 76, 111, 103, 111>>
\* "a", "a-b" and "a\b" (a POSIX directory name holding a backslash)
a == <<97>>
a_dash_b == <<97, 45, 98>>
a_bslash_b == <<97, 92, 98>>

\* A scan root that is the working directory itself: Path(".").
apps_dir_cwd == <<>>
\* apps_dir = Path("src/apps")
apps_dir == <<src, apps>>

\* open("index.html", "w"): the output file, in the working directory
out_file == <<indexhtml>>

\* ------------------------------------------------------------- pathlib
\* Path.parent: the path without its last segment; Path(".").parent is Path(".")
Parent(p) == IF p = <<>> THEN <<>> ELSE SubSeq(p, 1, Len(p) - 1)

\* Path.name: the last segment, "" for Path(".")
Name(p) == IF p = <<>> THEN <<>> ELSE p[Len(p)]

RECURSIVE Join(_)
Join(p) == IF Len(p) = 1 THEN p[1] ELSE Join(SubSeq(p, 1, Len(p) - 1)) \o <<Slash>> \o p[Len(p)]

\* str(path): the segments joined by "/", "." for the empty path
Str(p) == IF p = <<>> THEN <<46>> ELSE Join(p)

\* str.replace(old, new) for one-character old and new
Replace(s, old, new) == [i \in 1..Len(s) |-> IF s[i] = old THEN new ELSE s[i]]

\* str.__lt__: comparison by code points, a proper prefix sorts first
StrLess(s, t) ==
  \E i \in 1..(Len(s) + 1) :
     /\ i <= Len(t)
     /\ \A j \in 1..(i - 1) : s[j] = t[j]
     /\ (i = Len(s) + 1 \/ s[i] < t[i])

\* Comparison of the two paths' str() values as plain strings.
PathLessByString(p, q) == StrLess(Str(p), Str(q))

\* PurePath.__lt__ (POSIX): comparison of the lists of segments, each
\* segment compared as a string, a proper prefix sorts first
PathLess(p, q) ==
  \E i \in 1..(Len(p) + 1) :
     /\ i <= Len(q)
     /\ \A j \in 1..(i - 1) : p[j] = q[j]
     /\ (i = Len(p) + 1 \/ StrLess(p[i], q[i]))

\* sorted(paths): ascending under PurePath.__lt__
RECURSIVE SortedPaths(_)
SortedPaths(S) ==
  IF S = {} THEN <<>>
  ELSE LET m == CHOOSE x \in S : \A y \in S \ {x} : PathLess(x, y)
       IN <<m>> \o SortedPaths(S \ {m})

\* The keys in descending order.
RECURSIVE SortedStringsDescending(_)
SortedStringsDescending(S) ==
  IF S = {} THEN <<>>
  ELSE LET m == CHOOSE x \in S : \A y \in S \ {x} : StrLess(y, x)
       IN <<m>> \o SortedStringsDescending(S \ {m})

RECURSIVE SortedStringsAscending(_)
SortedStringsAscending(S) ==
  IF S = {} THEN <<>>
  ELSE LET m == CHOOSE x \in S : \A y \in S \ {x} : StrLess(x, y)
       IN <<m>> \o SortedStringsAscending(S \ {m})

\* sorted(by_category): the keys of the mapping, ascending under str.__lt__
SortedStrings(S) == SortedStringsAscending(S)

\* --------------------------------------------------------------- state
VARIABLES
  files,        \* the regular files of the tree, as paths from the working directory
  dirs,         \* the directories of the tree
  outContent,   \* content of ./index.html: <<>> when empty or absent, <<doc>> otherwise
  pc,           \* position of the run in the script
  run,          \* number of the current run
  stdout,       \* lines printed by the current run
  index_files,  \* the list sorted(apps_dir.rglob("index.html")) the scan loop iterates
  entries,      \* list of (category, name, rel_path)
  by_category,  \* mapping category -> list of (name, path)
  sections,     \* the rendered sections
  html          \* the rendered document

vars == <<files, dirs, outContent, pc, run, stdout, index_files, entries, by_category, sections, html>>

\* ------------------------------------------------------- the filesystem
\* The directories under the scan root that may hold a marker file in an
\* initial tree, as paths from the scan root: the scan root itself,
\* directories one level below it and directories two levels below it.
DemoDirs ==
  {<<>>, <<draw>>, <<logo>>, <<apps>>,
   <<draw, Sketchpad>>, <<draw, Paintbrush>>,
   <<logo, MakeabilityLabLogo>>, <<logo, a>>,
   <<apps, a>>, <<apps, a_dash_b>>, <<apps, a_bslash_b>>}

\* Marker files an initial tree may hold.
CandidateMarkers == {apps_dir \o d \o <<indexhtml>> : d \in DemoDirs}

\* Files named index.html outside the scan root: an output file left by an
\* earlier run, and src/index.html.
OutsideFiles == {out_file, <<src, indexhtml>>}

RECURSIVE SubsetsUpTo(_, _)
SubsetsUpTo(S, k) ==
  IF k = 0 THEN {{}}
  ELSE LET P == SubsetsUpTo(S, k - 1) IN P \cup {s \cup {x} : s \in P, x \in S}

\* All the directories on the way from the working directory to path p.
Prefixes(p) == {SubSeq(p, 1, k) : k \in 0..Len(p)}

DirsOf(F) == UNION {Prefixes(Parent(f)) : f \in F}

\* Path.is_dir()
IsDir(d) == d \in dirs

\* Path.exists()
Exists(p) == p \in dirs \/ p \in files

\* Every file named pattern anywhere in the tree, whatever the root.
RglobAnywhere(root, pattern) == {f \in files : Name(f) = pattern}

\* root.rglob(pattern): the files named pattern at any depth under root;
\* nothing when root is not a directory
Rglob(root, pattern) ==
  IF ~IsDir(root) THEN {}
  ELSE {f \in files : /\ Len(f) > Len(root)
                      /\ SubSeq(f, 1, Len(root)) = root
                      /\ Name(f) = pattern}

\* ------------------------------------------------------------ documents
Title == "Makeability Lab - JavaScript Demo Gallery"

Document(secs) == [title |-> Title, sections |-> secs]

\* A document of an earlier, unrelated build found in ./index.html.
StaleDocument == [title |-> "stale", sections |-> <<>>]

\* html before line 34 assigns it
Unassigned == [title |-> "", sections |-> <<>>]

\* ---------------------------------------------------------- the script
\* The body of the scan loop with the category taken from the demo directory itself.
EntryCategoryFromOwnName(index_file) ==
  LET app_path == Parent(index_file)
      rel_path == Replace(Str(app_path), Backslash, Slash)
      name     == Name(app_path)
      category == Name(app_path)
  IN  <<category, name, rel_path>>

\* The body of the scan loop: the entry of one marker file
Entry(index_file) ==
  LET app_path == Parent(index_file)
      rel_path == Replace(Str(app_path), Backslash, Slash)
      name     == Name(app_path)
      category == Name(Parent(app_path))
  IN  <<category, name, rel_path>>

\* Grouping under the demo's name instead of its category.
AppendToNameGroup(bc, e) ==
  IF e[2] \in DOMAIN bc
  THEN [bc EXCEPT ![e[2]] = Append(@, <<e[2], e[3]>>)]
  ELSE [k \in DOMAIN bc \cup {e[2]} |-> IF k = e[2] THEN <<<<e[2], e[3]>>>> ELSE bc[k]]

\* Inserting at the head of the category's list instead of appending.
PrependToGroup(bc, e) ==
  IF e[1] \in DOMAIN bc
  THEN [bc EXCEPT ![e[1]] = <<<<e[2], e[3]>>>> \o @]
  ELSE [k \in DOMAIN bc \cup {e[1]} |-> IF k = e[1] THEN <<<<e[2], e[3]>>>> ELSE bc[k]]

\* by_category[category].append((name, path)) on a defaultdict(list)
AppendToGroup(bc, e) ==
  IF e[1] \in DOMAIN bc
  THEN [bc EXCEPT ![e[1]] = Append(@, <<e[2], e[3]>>)]
  ELSE [k \in DOMAIN bc \cup {e[1]} |-> IF k = e[1] THEN <<<<e[2], e[3]>>>> ELSE bc[k]]

\* The grouping loop over entries[i..]
RECURSIVE GroupFrom(_, _, _)
GroupFrom(es, i, bc) ==
  IF i > Len(es) THEN bc ELSE GroupFrom(es, i + 1, AppendToGroup(bc, es[i]))

\* One card of the template
Card(category, name, path) ==
  [href |-> path \o <<Slash>>, name |-> name, category |-> category]

\* One section: the heading and the cards of the category, in list order
Section(bc, category) ==
  [category |-> category,
   cards    |-> [i \in 1..Len(bc[category]) |-> Card(category, bc[category][i][1], bc[category][i][2])]]

Init ==
  \E M \in SubsetsUpTo(CandidateMarkers, MaxFiles), O \in SUBSET OutsideFiles, E \in SUBSET {apps_dir} :
     /\ files = M \cup O
     /\ dirs = DirsOf(M \cup O) \cup UNION {Prefixes(d) : d \in E}
     /\ outContent = IF out_file \in O THEN <<StaleDocument>> ELSE <<>>
     /\ pc = "diag"
     /\ run = 1
     /\ stdout = <<>>
     /\ index_files = <<>>
     /\ entries = <<>>
     /\ by_category = <<>>
     /\ sections = <<>>
     /\ html = Unassigned

\* line 5: the pre-scan diagnostic line
Diag ==
  /\ pc = "diag"
  /\ stdout' = Append(stdout, [kind |-> "diag", exists |-> Exists(apps_dir),
                               found |-> Rglob(apps_dir, indexhtml)])
  /\ pc' = "scan"
  /\ UNCHANGED <<files, dirs, outContent, run, index_files, entries, by_category, sections, html>>

\* lines 8-14: the scan loop
Scan ==
  /\ pc = "scan"
  /\ LET sorted == SortedPaths(Rglob(apps_dir, indexhtml))
     IN  /\ index_files' = sorted
         /\ entries' = [i \in 1..Len(sorted) |-> Entry(sorted[i])]
  /\ pc' = "group"
  /\ UNCHANGED <<files, dirs, outContent, run, stdout, by_category, sections, html>>

\* lines 17-20: the grouping loop
Group ==
  /\ pc = "group"
  /\ by_category' = GroupFrom(entries, 1, <<>>)
  /\ pc' = "render"
  /\ UNCHANGED <<files, dirs, outContent, run, stdout, index_files, entries, sections, html>>

\* lines 23-32: the render loop
Render ==
  /\ pc = "render"
  /\ LET cats == SortedStrings(DOMAIN by_category)
     IN  sections' = [k \in 1..Len(cats) |-> Section(by_category, cats[k])]
  /\ pc' = "build"
  /\ UNCHANGED <<files, dirs, outContent, run, stdout, index_files, entries, by_category, html>>

\* lines 34-55: the document template
BuildHtml ==
  /\ pc = "build"
  /\ html' = Document(sections)
  /\ pc' = "open"
  /\ UNCHANGED <<files, dirs, outContent, run, stdout, index_files, entries, by_category, sections>>

\* line 57: open(..., "w") creates or truncates the output file
Open ==
  /\ pc = "open"
  /\ files' = files \cup {out_file}
  /\ outContent' = <<>>
  /\ pc' = "write"
  /\ UNCHANGED <<dirs, run, stdout, index_files, entries, by_category, sections, html>>

\* line 57: open raises OSError (no permission, ...); nothing catches it
OpenFail ==
  /\ pc = "open"
  /\ pc' = "aborted"
  /\ UNCHANGED <<files, dirs, outContent, run, stdout, index_files, entries, by_category, sections, html>>

\* line 58: f.write(html), and the with block closes the file
Write ==
  /\ pc = "write"
  /\ outContent' = <<html>>
  /\ pc' = "report"
  /\ UNCHANGED <<files, dirs, run, stdout, index_files, entries, by_category, sections, html>>

\* A failed write that is swallowed: the run goes on to the report.
WriteFailSwallowed ==
  /\ pc = "write"
  /\ pc' = "report"
  /\ UNCHANGED <<files, dirs, outContent, run, stdout, index_files, entries, by_category, sections, html>>

\* line 58: write raises OSError (disk full, ...); nothing catches it
WriteFail ==
  /\ pc = "write"
  /\ pc' = "aborted"
  /\ UNCHANGED <<files, dirs, outContent, run, stdout, index_files, entries, by_category, sections, html>>

\* line 60: the demo-count line
Report ==
  /\ pc = "report"
  /\ stdout' = Append(stdout, [kind |-> "count", count |-> Len(entries)])
  /\ pc' = "done"
  /\ UNCHANGED <<files, dirs, outContent, run, index_files, entries, by_category, sections, html>>

\* The script is started again on the tree the finished run left.
Rerun ==
  /\ pc = "done"
  /\ run < MaxRuns
  /\ run' = run + 1
  /\ pc' = "diag"
  /\ stdout' = <<>>
  /\ index_files' = <<>>
  /\ entries' = <<>>
  /\ by_category' = <<>>
  /\ sections' = <<>>
  /\ html' = Unassigned
  /\ UNCHANGED <<files, dirs, outContent>>

Next ==
  \/ Diag
  \/ Scan
  \/ Group
  \/ Render
  \/ BuildHtml
  \/ Open
  \/ OpenFail
  \/ Write
  \/ WriteFail
  \/ Report
  \/ Rerun

Spec == Init /\ [][Next]_vars

\* ------------------------------------------------------------ properties
\* The marker files of the tree: the files index.html at any depth under
\* src/apps, read off the tree itself.
MarkerFiles ==
  {f \in files : Len(f) > 2 /\ f[1] = src /\ f[2] = apps /\ f[Len(f)] = indexhtml}

\* The directory that contains marker file m, and that directory as text.
DemoDir(m) == SubSeq(m, 1, Len(m) - 1)
DemoDirText(m) == Str(DemoDir(m))

\* The name of the directory above the demo directory of marker file m.
ParentDirName(m) == m[Len(m) - 2]

\* The document in the output file.
OutputDoc == outContent[1]

Written == out_file \in files /\ outContent = <<html>>

\* The places <<section, card>> of the cards of document doc.
Positions(doc) ==
  UNION {{<<s, i>> : i \in 1..Len(doc.sections[s].cards)} : s \in 1..Len(doc.sections)}

CardAt(doc, pos) == doc.sections[pos[1]].cards[pos[2]]

\* The card that stands for marker file m: it shows the name of m's
\* directory and links to that directory as the builder writes the link.
IsCardOf(card, m) ==
  /\ card.name = m[Len(m) - 1]
  /\ card.href = Replace(DemoDirText(m), Backslash, Slash) \o <<Slash>>

PositionsOf(doc, m) == {pos \in Positions(doc) : IsCardOf(CardAt(doc, pos), m)}

SectionsOf(doc, m) == {pos[1] : pos \in PositionsOf(doc, m)}

\* The count the last printed line reports.
ReportedCount == stdout[Len(stdout)].count

CountReported == Len(stdout) > 0 /\ stdout[Len(stdout)].kind = "count"

\* Segment by segment order of two paths, every segment taken as a whole.
SegmentwiseLess(p, q) ==
  \E i \in 1..(Len(p) + 1) :
     /\ i <= Len(q)
     /\ \A j \in 1..(i - 1) : p[j] = q[j]
     /\ (i = Len(p) + 1 \/ StrLess(p[i], q[i]))

\* The segments of a path given as text.
RECURSIVE SplitText(_)
SplitText(s) ==
  IF \A i \in 1..Len(s) : s[i] # Slash THEN <<s>>
  ELSE LET k == CHOOSE i \in 1..Len(s) : s[i] = Slash /\ \A j \in 1..(i - 1) : s[j] # Slash
       IN  <<SubSeq(s, 1, k - 1)>> \o SplitText(SubSeq(s, k + 1, Len(s)))

\* C1: after a successful run the output holds, for every marker file under
\* the scan root, exactly one card whose link is the marker file's directory
\* path followed by a slash, and every card of the output links to the
\* directory of some marker file.
C1_Completeness ==
  pc = "done" =>
    /\ \A m \in MarkerFiles :
         Cardinality({pos \in Positions(OutputDoc) :
                        CardAt(OutputDoc, pos).href = DemoDirText(m) \o <<Slash>>}) = 1
    /\ \A pos \in Positions(OutputDoc) :
         \E m \in MarkerFiles : CardAt(OutputDoc, pos).href = DemoDirText(m) \o <<Slash>>

\* C2: in the output of a run, the cards of demos whose parent directories
\* have the same name are in the same section, every demo's card is in
\* exactly one section, and no section is without cards.
C2_Grouping ==
  pc = "done" =>
    /\ \A m \in MarkerFiles : Cardinality(PositionsOf(OutputDoc, m)) = 1
    /\ \A m1, m2 \in MarkerFiles :
         ParentDirName(m1) = ParentDirName(m2) => SectionsOf(OutputDoc, m1) = SectionsOf(OutputDoc, m2)
    /\ \A s \in 1..Len(OutputDoc.sections) : Len(OutputDoc.sections[s].cards) >= 1

\* A finished run over two demos whose parents are different directories of one name.
C2_Witness ==
  /\ pc = "done"
  /\ Len(OutputDoc.sections) >= 2
  /\ \E m1, m2 \in MarkerFiles :
       /\ ParentDirName(m1) = ParentDirName(m2)
       /\ SubSeq(m1, 1, Len(m1) - 2) # SubSeq(m2, 1, Len(m2) - 2)

\* C3: in the output of a run the section headings are in strictly
\* ascending order of category name.
C3_CategoryOrder ==
  pc = "done" =>
    \A s, t \in 1..Len(OutputDoc.sections) :
       s < t => StrLess(OutputDoc.sections[s].category, OutputDoc.sections[t].category)

\* A finished run whose output has three sections or more.
C3_Witness == pc = "done" /\ Len(OutputDoc.sections) >= 3

\* C4 as stated: the scan list holds the marker files in ascending order of
\* their full path strings, and the cards of every section are in that order.
C4_ScanOrderByString ==
  /\ pc \notin {"diag", "scan"} =>
       /\ {index_files[i] : i \in 1..Len(index_files)} = MarkerFiles
       /\ \A i, j \in 1..Len(index_files) :
            i < j => StrLess(Str(index_files[i]), Str(index_files[j]))
  /\ pc = "done" =>
       \A m1, m2 \in MarkerFiles : \A p1 \in PositionsOf(OutputDoc, m1), p2 \in PositionsOf(OutputDoc, m2) :
          (p1[1] = p2[1] /\ p1[2] < p2[2]) => StrLess(Str(m1), Str(m2))

\* C4 amended: the scan list holds the marker files in ascending segment by
\* segment order of their paths, and the cards of every section are in
\* that order.
C4_ScanOrderBySegments ==
  /\ pc \notin {"diag", "scan"} =>
       /\ {index_files[i] : i \in 1..Len(index_files)} = MarkerFiles
       /\ \A i, j \in 1..Len(index_files) :
            i < j => SegmentwiseLess(index_files[i], index_files[j])
  /\ pc = "done" =>
       \A m1, m2 \in MarkerFiles : \A p1 \in PositionsOf(OutputDoc, m1), p2 \in PositionsOf(OutputDoc, m2) :
          (p1[1] = p2[1] /\ p1[2] < p2[2]) => SegmentwiseLess(m1, m2)

\* A finished run with two cards in one section whose markers the two orders rank differently.
C4_Witness ==
  /\ pc = "done"
  /\ \E m1, m2 \in MarkerFiles : \E p1 \in PositionsOf(OutputDoc, m1), p2 \in PositionsOf(OutputDoc, m2) :
       /\ p1[1] = p2[1]
       /\ p1[2] < p2[2]
       /\ StrLess(Str(m2), Str(m1))

\* The scan root is missing, or holds no marker file.
EmptyRoot == <<src, apps>> \notin dirs \/ MarkerFiles = {}

\* C5: with a missing or marker-free scan root the run renders a document
\* without sections, nothing stops it before the write, and once finished
\* the file holds that document and the reported count is 0.
C5_EmptyRoot ==
  EmptyRoot =>
    /\ pc \in {"open", "write", "report", "done", "aborted"} => html = Document(<<>>)
    /\ pc = "done" => /\ out_file \in files
                      /\ outContent = <<Document(<<>>)>>
                      /\ CountReported
                      /\ ReportedCount = 0

\* A finished run on a tree without the scan root, holding src/index.html.
C5_Witness ==
  /\ pc = "done"
  /\ <<src, apps>> \notin dirs
  /\ <<src, indexhtml>> \in files

\* C6: a run that follows a finished run scans the same marker files, never
\* the output file, and the document it is about to write, and then has
\* written, is the content the earlier run left in the output file.
C6_Idempotent ==
  run >= 2 =>
    /\ \A i \in 1..Len(index_files) : index_files[i] # out_file
    /\ pc = "open" => Written
    /\ pc \in {"report", "done"} => Written

\* A second run that finished with a document holding cards.
C6_Witness == run = 2 /\ pc = "done" /\ Len(OutputDoc.sections) >= 1

\* The three marker files of the example.
ExampleMarkers ==
  {<<src, apps, draw, Sketchpad, indexhtml>>,
   <<src, apps, draw, Paintbrush, indexhtml>>,
   <<src, apps, logo, MakeabilityLabLogo, indexhtml>>}

CardNames(sec) == [i \in 1..Len(sec.cards) |-> sec.cards[i].name]

\* C7 as stated: on the example tree the output has the sections "draw" and
\* "logo" in that order, "draw" with the cards Sketchpad, Paintbrush in that
\* order, "logo" with the card MakeabilityLabLogo, and the count is 3.
C7_ExampleAsStated ==
  (MarkerFiles = ExampleMarkers /\ pc = "done") =>
    /\ Len(OutputDoc.sections) = 2
    /\ OutputDoc.sections[1].category = draw
    /\ CardNames(OutputDoc.sections[1]) = <<Sketchpad, Paintbrush>>
    /\ OutputDoc.sections[2].category = logo
    /\ CardNames(OutputDoc.sections[2]) = <<MakeabilityLabLogo>>
    /\ ReportedCount = 3

\* C7 amended: as stated, but "draw" holds Paintbrush before Sketchpad.
C7_Example ==
  (MarkerFiles = ExampleMarkers /\ pc = "done") =>
    /\ Len(OutputDoc.sections) = 2
    /\ OutputDoc.sections[1].category = draw
    /\ CardNames(OutputDoc.sections[1]) = <<Paintbrush, Sketchpad>>
    /\ OutputDoc.sections[2].category = logo
    /\ CardNames(OutputDoc.sections[2]) = <<MakeabilityLabLogo>>
    /\ ReportedCount = 3

\* A finished run on the example tree.
C7_Witness == MarkerFiles = ExampleMarkers /\ pc = "done" /\ CountReported

\* C8: the diagnostic line is the first line and is out before the scan
\* starts; a count line is printed only by a run that has written the
\* document to the output file; a run aborted by a failed write has
\* printed no count line.
C8_AllOrNothing ==
  /\ pc = "diag" => stdout = <<>>
  /\ pc # "diag" => Len(stdout) >= 1 /\ stdout[1].kind = "diag"
  /\ pc = "scan" => index_files = <<>> /\ entries = <<>>
  /\ \A i \in 1..Len(stdout) : stdout[i].kind = "count" => (i = 2 /\ pc = "done" /\ Written)
  /\ pc = "aborted" => \A i \in 1..Len(stdout) : stdout[i].kind # "count"

\* A run aborted by a write that failed after the file was opened.
C8_Witness == pc = "aborted" /\ out_file \in files /\ outContent = <<>> /\ Len(entries) >= 1

\* C9: for a marker file two levels or more below the scan root the entry's
\* path is the marker path without the file name, its name is the last
\* segment of that path and its category the segment before it; the card
\* shows that name and category and sits in the section of that category.
C9_Derivation ==
  \A m \in MarkerFiles : Len(m) >= 5 =>
    /\ pc \notin {"diag", "scan"} =>
         \E i \in 1..Len(entries) :
            LET path == entries[i][3]
                segs == SplitText(path)
            IN  /\ index_files[i] = m
                /\ path = DemoDirText(m)
                /\ entries[i][2] = segs[Len(segs)]
                /\ entries[i][1] = segs[Len(segs) - 1]
    /\ pc = "done" =>
         \E pos \in Positions(OutputDoc) :
            LET card == CardAt(OutputDoc, pos)
                segs == SplitText(DemoDirText(m))
            IN  /\ card.href = DemoDirText(m) \o <<Slash>>
                /\ card.name = segs[Len(segs)]
                /\ card.category = segs[Len(segs) - 1]
                /\ OutputDoc.sections[pos[1]].category = card.category

\* C10: a marker file one level below the scan root yields one card named
\* after its directory in the section "apps", a marker file in the scan root
\* yields one card named "apps" in the section "src", no section has an
\* empty category, and the run renders its document whatever the depth.
C10_Shallow ==
  /\ pc \in {"open", "write", "report", "done", "aborted"} =>
       /\ html = Document(sections)
       /\ \A s \in 1..Len(sections) : sections[s].category # <<>>
  /\ pc = "done" =>
       \A m \in MarkerFiles :
          /\ Len(m) = 4 =>
               /\ Cardinality(PositionsOf(OutputDoc, m)) = 1
               /\ \A pos \in PositionsOf(OutputDoc, m) :
                    /\ CardAt(OutputDoc, pos).name = m[3]
                    /\ CardAt(OutputDoc, pos).category = apps
                    /\ OutputDoc.sections[pos[1]].category = apps
          /\ Len(m) = 3 =>
               /\ Cardinality(PositionsOf(OutputDoc, m)) = 1
               /\ \A pos \in PositionsOf(OutputDoc, m) :
                    /\ CardAt(OutputDoc, pos).name = apps
                    /\ CardAt(OutputDoc, pos).category = src
                    /\ OutputDoc.sections[pos[1]].category = src

\* A finished run on a tree with a marker file in the scan root and one a level below.
C10_Witness ==
  /\ pc = "done"
  /\ \E m1, m2 \in MarkerFiles : Len(m1) = 3 /\ Len(m2) = 4

====
